---- MODULE Spec2Model ----
(***************************************************************************)
(* A model of backend/src/python/garmin/garmin_service.py: one invocation  *)
(* of main(), the calls it makes on the garminconnect client (login,       *)
(* get_user_profile, get_activities_by_date, get_activity_details,         *)
(* get_stats) and the JSON value it prints.  The client library is the     *)
(* environment: each of its calls returns or raises nondeterministically.  *)
(***************************************************************************)
EXTENDS Integers, Sequences, FiniteSets, TLC

(***************************************************************************)
(* Python / JSON values.  Scalars are tagged so that integers, strings and *)
(* booleans can sit in one dict; a dict is a function from key strings to  *)
(* scalars; a value printed by main is a dict or a list of dicts.          *)
(***************************************************************************)
IntV(n) == [t |-> "int", n |-> n, s |-> ""]

StrV(s) == [t |-> "str", n |-> 0, s |-> s]

BoolV(b) == [t |-> "bool", n |-> IF b THEN 1 ELSE 0, s |-> ""]

NoneV == [t |-> "none", n |-> 0, s |-> ""]

\* a Python object json.dumps has no encoding for
OpaqueV == [t |-> "opaque", n |-> 0, s |-> ""]

EmptyDict == [k \in {} |-> IntV(0)]

\* a dict as the value of a key of another dict
DictV(d) == [t |-> "dict", n |-> 0, s |-> "", d |-> d]

Obj(o) == [t |-> "obj", o |-> o, a |-> <<>>]

Arr(a) == [t |-> "arr", o |-> EmptyDict, a |-> a]

\* dict.get(key, default)
Get(d, key, default) == IF key \in DOMAIN d THEN d[key] ELSE default

\* the two keys in the other order
GetEitherMutant(d, primary, fallback) == Get(d, fallback, Get(d, primary, IntV(0)))

\* d.get(primary, d.get(fallback, 0))
GetEither(d, primary, fallback) == Get(d, primary, Get(d, fallback, IntV(0)))

\* a // 60 on integers (floor division)
FloorDiv60(v) == IntV(v.n \div 60)

\* math.ceil in place of int
IntOfFortyPercentMutant(m) == (2 * m + 4) \div 5

\* int(m * 0.4) for an integer m >= 0: the double nearest 0.4 is a little
\* above 2/5, so the product never falls below an integer it should reach
IntOfFortyPercent(m) == (2 * m) \div 5

RATE_LIMIT_ERROR == "Garmin API rate limit reached. Please try again later."

RateLimitDict == [error |-> StrV(RATE_LIMIT_ERROR), status_code |-> IntV(429)]

ErrorDict(msg) == [error |-> StrV(msg)]

(***************************************************************************)
(* Command-line strings are sequences of characters, so that strptime is   *)
(* modelled by what it matches; an argument that was not given is None.    *)
(***************************************************************************)
NoneArg == [none |-> TRUE, chars |-> <<>>]

StrArg(cs) == [none |-> FALSE, chars |-> cs]

RECURSIVE Join(_)
Join(cs) == IF cs = <<>> THEN "" ELSE Head(cs) \o Join(Tail(cs))

DigitChars == <<"0", "1", "2", "3", "4", "5", "6", "7", "8", "9">>

IsDigit(c) == \E i \in 1..10 : DigitChars[i] = c

DigitVal(c) == (CHOOSE i \in 1..10 : DigitChars[i] = c) - 1

IsLeap(y) == (y % 4 = 0 /\ y % 100 # 0) \/ y % 400 = 0

DaysInMonth(y, m) ==
    IF m = 2 THEN (IF IsLeap(y) THEN 29 ELSE 28)
    ELSE IF m \in {4, 6, 9, 11} THEN 30 ELSE 31

\* the regular expression of %m: 1[0-2]|0[1-9]|[1-9]; the length it matches
\* at position i of cs, 0 when it does not match
MonthTokenLen(cs, i) ==
    IF i + 1 <= Len(cs) /\ cs[i] = "1" /\ cs[i + 1] \in {"0", "1", "2"} THEN 2
    ELSE IF i + 1 <= Len(cs) /\ cs[i] = "0" /\ IsDigit(cs[i + 1]) /\ cs[i + 1] # "0" THEN 2
    ELSE IF i <= Len(cs) /\ IsDigit(cs[i]) /\ cs[i] # "0" THEN 1
    ELSE 0

\* the regular expression of %d: 3[0-1]|[1-2]\d|0[1-9]|[1-9]| [1-9]
DayTokenLen(cs, i) ==
    IF i + 1 <= Len(cs) /\ cs[i] = "3" /\ cs[i + 1] \in {"0", "1"} THEN 2
    ELSE IF i + 1 <= Len(cs) /\ cs[i] \in {"1", "2"} /\ IsDigit(cs[i + 1]) THEN 2
    ELSE IF i + 1 <= Len(cs) /\ cs[i] = "0" /\ IsDigit(cs[i + 1]) /\ cs[i + 1] # "0" THEN 2
    ELSE IF i <= Len(cs) /\ IsDigit(cs[i]) /\ cs[i] # "0" THEN 1
    ELSE IF i + 1 <= Len(cs) /\ cs[i] = " " /\ IsDigit(cs[i + 1]) /\ cs[i + 1] # "0" THEN 2
    ELSE 0

\* the number a token of one or two characters stands for
TokenVal(cs, i, len) ==
    IF len = 1 THEN DigitVal(cs[i])
    ELSE (IF cs[i] = " " THEN 0 ELSE 10 * DigitVal(cs[i])) + DigitVal(cs[i + 1])

\* datetime.strptime(arg, "%Y-%m-%d").date(): [ok |-> TRUE, y, m, d] for a
\* date, [ok |-> FALSE, exc |-> "TypeError"] for None and "ValueError" for a
\* string the format does not match in full or that names no calendar day
Strptime(arg) ==
    LET cs   == arg.chars
        bad(e) == [ok |-> FALSE, exc |-> e, y |-> 0, m |-> 0, d |-> 0]
        mlen == MonthTokenLen(cs, 6)
        dlen == DayTokenLen(cs, 7 + mlen)
        y    == 1000 * DigitVal(cs[1]) + 100 * DigitVal(cs[2])
                  + 10 * DigitVal(cs[3]) + DigitVal(cs[4])
        m    == TokenVal(cs, 6, mlen)
        d    == TokenVal(cs, 7 + mlen, dlen)
    IN  IF arg.none THEN bad("TypeError")
        ELSE IF ~(Len(cs) >= 5 /\ \A i \in 1..4 : IsDigit(cs[i])) THEN bad("ValueError")
        ELSE IF cs[5] # "-" \/ mlen = 0 THEN bad("ValueError")
        ELSE IF ~(6 + mlen <= Len(cs) /\ cs[6 + mlen] = "-") \/ dlen = 0 THEN bad("ValueError")
        ELSE IF Len(cs) # 6 + mlen + dlen THEN bad("ValueError")
        ELSE IF y < 1 \/ d < 1 \/ d > DaysInMonth(y, m) THEN bad("ValueError")
        ELSE [ok |-> TRUE, exc |-> "", y |-> y, m |-> m, d |-> d]

\* str(e) of the exception strptime raised
StrptimeMessage(arg, exc) ==
    IF exc = "TypeError" THEN "strptime() argument 1 must be str, not None"
    ELSE "time data '" \o Join(arg.chars) \o "' does not match format '%Y-%m-%d'"

\* a string has the form YYYY-MM-DD: four digits, two digits, two digits
IsIsoForm(arg) ==
    /\ ~arg.none
    /\ Len(arg.chars) = 10
    /\ \A i \in {1, 2, 3, 4, 6, 7, 9, 10} : IsDigit(arg.chars[i])
    /\ arg.chars[5] = "-" /\ arg.chars[8] = "-"

\* date.strftime("%Y-%m-%d") and date.isoformat(), for years 1000..9999
TwoDigits(n) == <<DigitChars[(n \div 10) + 1], DigitChars[(n % 10) + 1]>>

Strftime(dt) ==
    <<DigitChars[(dt.y \div 1000) + 1], DigitChars[((dt.y \div 100) % 10) + 1],
      DigitChars[((dt.y \div 10) % 10) + 1], DigitChars[(dt.y % 10) + 1], "-">>
    \o TwoDigits(dt.m) \o <<"-">> \o TwoDigits(dt.d)

\* current_date += timedelta(days=1)
NextDay(dt) ==
    IF dt.d < DaysInMonth(dt.y, dt.m) THEN [dt EXCEPT !.d = dt.d + 1]
    ELSE IF dt.m < 12 THEN [dt EXCEPT !.m = dt.m + 1, !.d = 1]
    ELSE [dt EXCEPT !.y = dt.y + 1, !.m = 1, !.d = 1]

\* current_date <= end
DateLeq(a, b) ==
    \/ a.y < b.y
    \/ a.y = b.y /\ a.m < b.m
    \/ a.y = b.y /\ a.m = b.m /\ a.d <= b.d

(***************************************************************************)
(* What client.get_stats hands back through handle_garmin_request: None,   *)
(* a dict, or a list whose first item is a dict or something else.         *)
(***************************************************************************)
NoneStats == [shape |-> "none", d |-> EmptyDict]

DictStats(d) == [shape |-> "dict", d |-> d]

ListStats(d) == [shape |-> "list_of_dict", d |-> d]

ListOfOtherStats == [shape |-> "list_of_other", d |-> EmptyDict]

EmptyListStats == [shape |-> "empty_list", d |-> EmptyDict]

\* "if stats_data:" -- None, {} and [] are false
Truthy(stats) ==
    CASE stats.shape = "none" -> FALSE
      [] stats.shape = "empty_list" -> FALSE
      [] stats.shape = "dict" -> stats.d # EmptyDict
      [] OTHER -> TRUE

\* v == 0 in Python: no string equals 0, False does
IsZero(v) == v.t \in {"int", "bool"} /\ v.n = 0

\* handle_garmin_request without its rate-limit clause
HandleGarminRequestMutant(outcome) ==
    IF outcome.kind = "return" THEN outcome.value ELSE NoneStats

\* handle_garmin_request(client.get_stats, date)
HandleGarminRequest(outcome) ==
    IF outcome.kind = "return" THEN outcome.value
    ELSE IF outcome.kind = "rate_limit" THEN DictStats(RateLimitDict)
    ELSE NoneStats

\* minutes_sedentary, with the fall back to sedentarySeconds // 60
MinutesSedentary(d) ==
    LET direct == GetEither(d, "minutes_sedentary", "minutesSedentary")
    IN  IF IsZero(direct) /\ "sedentarySeconds" \in DOMAIN d
        THEN FloorDiv60(Get(d, "sedentarySeconds", IntV(0)))
        ELSE direct

\* the three activity buckets: the direct minute values, or the estimate
\* from activeSeconds and highlyActiveSeconds when all three are 0
ActiveMinutes(d) ==
    LET lightly    == GetEither(d, "minutes_lightly_active", "minutesLightlyActive")
        moderately == GetEither(d, "minutes_moderately_active", "minutesModeratelyActive")
        highly     == GetEither(d, "minutes_highly_active", "minutesHighlyActive")
        minutes_active == FloorDiv60(Get(d, "activeSeconds", IntV(0)))
        est_highly == FloorDiv60(Get(d, "highlyActiveSeconds", IntV(0)))
        est_moderately == IntOfFortyPercent(minutes_active.n)
    IN  IF IsZero(lightly) /\ IsZero(moderately) /\ IsZero(highly) /\ minutes_active.n > 0
        THEN [lightly    |-> IntV(minutes_active.n - est_highly.n - est_moderately),
              moderately |-> IntV(est_moderately),
              highly     |-> est_highly]
        ELSE [lightly |-> lightly, moderately |-> moderately, highly |-> highly]

\* the summary dict built from the values the dict branch (lines 197-235)
\* extracted
SummaryRecord(d, date) ==
    [id |-> IntV(0),
     user_id |-> IntV(0),
     date |-> StrV(Join(date.chars)),
     total_steps |-> GetEither(d, "totalSteps", "total_steps"),
     total_distance_meters |-> GetEither(d, "totalDistanceMeters", "total_distance_meters"),
     total_calories |-> GetEither(d, "totalKilocalories", "total_calories"),
     active_calories |-> GetEither(d, "activeKilocalories", "active_calories"),
     bmr_calories |-> GetEither(d, "bmrKilocalories", "bmr_calories"),
     avg_heart_rate |-> GetEither(d, "minHeartRate", "min_heart_rate"),
     max_heart_rate |-> GetEither(d, "maxHeartRate", "max_heart_rate"),
     resting_heart_rate |-> GetEither(d, "restingHeartRate", "resting_heart_rate"),
     avg_stress_level |-> GetEither(d, "averageStressLevel", "avg_stress_level"),
     floor_climbed |-> GetEither(d, "floorsAscended", "floor_climbed"),
     minutes_sedentary |-> MinutesSedentary(d),
     minutes_lightly_active |-> ActiveMinutes(d).lightly,
     minutes_moderately_active |-> ActiveMinutes(d).moderately,
     minutes_highly_active |-> ActiveMinutes(d).highly,
     created_at |-> StrV(""),
     updated_at |-> StrV("")]

\* the list branch with the estimate of the buckets left out
ListActiveMinutesMutant(first_item) ==
    [lightly    |-> GetEither(first_item, "minutes_lightly_active", "minutesLightlyActive"),
     moderately |-> GetEither(first_item, "minutes_moderately_active", "minutesModeratelyActive"),
     highly     |-> GetEither(first_item, "minutes_highly_active", "minutesHighlyActive")]

\* the list branch, lines 251-255: minutes_sedentary of the first item
ListMinutesSedentary(first_item) ==
    LET direct == GetEither(first_item, "minutes_sedentary", "minutesSedentary")
    IN  IF IsZero(direct) /\ "sedentarySeconds" \in DOMAIN first_item
        THEN FloorDiv60(Get(first_item, "sedentarySeconds", IntV(0)))
        ELSE direct

\* the list branch, lines 257-272: the three activity buckets of the first
\* item
ListActiveMinutes(first_item) ==
    LET lightly    == GetEither(first_item, "minutes_lightly_active", "minutesLightlyActive")
        moderately == GetEither(first_item, "minutes_moderately_active",
                                "minutesModeratelyActive")
        highly     == GetEither(first_item, "minutes_highly_active", "minutesHighlyActive")
        minutes_active == FloorDiv60(Get(first_item, "activeSeconds", IntV(0)))
        est_highly == FloorDiv60(Get(first_item, "highlyActiveSeconds", IntV(0)))
        moderately_active == IntOfFortyPercent(minutes_active.n)
        lightly_active == minutes_active.n - est_highly.n - moderately_active
    IN  IF IsZero(lightly) /\ IsZero(moderately) /\ IsZero(highly) /\ minutes_active.n > 0
        THEN [lightly |-> IntV(lightly_active), moderately |-> IntV(moderately_active),
              highly |-> est_highly]
        ELSE [lightly |-> lightly, moderately |-> moderately, highly |-> highly]

\* the summary dict built from the values the list branch (lines 237-277)
\* extracted from the first item
ListSummaryRecord(first_item, date) ==
    [id |-> IntV(0),
     user_id |-> IntV(0),
     date |-> StrV(Join(date.chars)),
     total_steps |-> GetEither(first_item, "totalSteps", "total_steps"),
     total_distance_meters |->
        GetEither(first_item, "totalDistanceMeters", "total_distance_meters"),
     total_calories |-> GetEither(first_item, "totalKilocalories", "total_calories"),
     active_calories |-> GetEither(first_item, "activeKilocalories", "active_calories"),
     bmr_calories |-> GetEither(first_item, "bmrKilocalories", "bmr_calories"),
     avg_heart_rate |-> GetEither(first_item, "minHeartRate", "min_heart_rate"),
     max_heart_rate |-> GetEither(first_item, "maxHeartRate", "max_heart_rate"),
     resting_heart_rate |-> GetEither(first_item, "restingHeartRate", "resting_heart_rate"),
     avg_stress_level |-> GetEither(first_item, "averageStressLevel", "avg_stress_level"),
     floor_climbed |-> GetEither(first_item, "floorsAscended", "floor_climbed"),
     minutes_sedentary |-> ListMinutesSedentary(first_item),
     minutes_lightly_active |-> ListActiveMinutes(first_item).lightly,
     minutes_moderately_active |-> ListActiveMinutes(first_item).moderately,
     minutes_highly_active |-> ListActiveMinutes(first_item).highly,
     created_at |-> StrV(""),
     updated_at |-> StrV("")]

NoDataMessage(date) == "No fitness data available for " \o Join(date.chars)

\* str(e) of the UnboundLocalError the debug print raises when neither
\* branch assigned minutes_lightly_active (the text of Python 3.11 and later)
UnboundLocalMessage ==
    "cannot access local variable 'minutes_lightly_active' where it is not associated with a value"

\* get_daily_summary from the return of handle_garmin_request to its own
\* return: the dict it returns
SummaryFromStats(stats, date) ==
    IF ~Truthy(stats) THEN ErrorDict(NoDataMessage(date))
    ELSE IF stats.shape = "dict" /\ Get(stats.d, "status_code", IntV(0)) = IntV(429)
    THEN stats.d
    ELSE IF stats.shape \notin {"dict", "list_of_dict"} THEN ErrorDict(UnboundLocalMessage)
    ELSE LET summary == IF stats.shape = "dict" THEN SummaryRecord(stats.d, date)
                        ELSE ListSummaryRecord(stats.d, date)
         IN  IF /\ IsZero(summary.total_steps)
                /\ IsZero(summary.total_distance_meters)
                /\ IsZero(summary.total_calories)
             THEN ErrorDict(NoDataMessage(date))
             ELSE summary

(***************************************************************************)
(* The stub responses of the client: the values the calls are drawn from.  *)
(***************************************************************************)
\* the most keys a stub stats response populates
MaxKeys == 3

TotalKeys ==
    {"totalSteps", "total_steps", "totalDistanceMeters", "total_distance_meters",
     "totalKilocalories", "total_calories"}

CalorieKeys ==
    {"activeKilocalories", "active_calories", "bmrKilocalories", "bmr_calories",
     "averageStressLevel", "avg_stress_level", "floorsAscended", "floor_climbed"}

MinuteKeys ==
    {"minutes_sedentary", "minutesSedentary", "sedentarySeconds",
     "minutes_lightly_active", "minutesLightlyActive",
     "minutes_moderately_active", "minutesModeratelyActive",
     "minutes_highly_active", "minutesHighlyActive",
     "activeSeconds", "highlyActiveSeconds"}

HeartKeys ==
    {"minHeartRate", "min_heart_rate", "maxHeartRate", "max_heart_rate",
     "restingHeartRate", "resting_heart_rate"}

StatusKeys == {"status_code"}

FieldGroups == {CalorieKeys, MinuteKeys, HeartKeys, StatusKeys}

\* the two values a stub gives a key: seconds that make whole minutes, an
\* HTTP status, or a count that is zero or not
StatsValues(k) ==
    IF k \in {"sedentarySeconds", "activeSeconds", "highlyActiveSeconds"} THEN <<60, 180>>
    ELSE IF k = "status_code" THEN <<200, 429>>
    ELSE <<0, 7>>

\* a stub populates the totals and the keys of one other group of fields
StubKeySets(group) == {S \in SUBSET (TotalKeys \cup group) : Cardinality(S) <= MaxKeys}

\* the stub with the keys S, each at the first or the second of its values
StubDict(S, choice) == [k \in S |-> IntV(StatsValues(k)[choice[k]])]

StubShapes == {"dict", "list_of_dict"}

\* the responses that are no dict and hold none
OtherStatsResponses == {NoneStats, EmptyListStats, ListOfOtherStats}

\* the days of a range draw from a few responses only
LoopStatsResponses ==
    {NoneStats, DictStats([totalSteps |-> IntV(7)]), ListStats([total_calories |-> IntV(7)]),
     DictStats([totalSteps |-> IntV(0)]), DictStats([status_code |-> IntV(429)])}

Raises(kind) == [kind |-> kind, value |-> NoneStats]

Returns(stats) == [kind |-> "return", value |-> stats]

\* what client.login does
LoginOutcomes == {"ok", "rate_limit", "connection_error", "authentication_error", "other_error"}

\* str(err) of the exceptions the client raises
ExceptionMessage(kind) ==
    CASE kind = "rate_limit" -> "Too many requests"
      [] kind = "connection_error" -> "Connection error"
      [] kind = "authentication_error" -> "Authentication failed"
      [] OTHER -> "Unexpected failure"

DateArgs ==
    {NoneArg,
     StrArg(<<"2", "0", "2", "4", "-", "0", "2", "-", "2", "8">>),
     StrArg(<<"2", "0", "2", "4", "-", "3", "-", "1">>),
     StrArg(<<"2", "0", "2", "4", "-", "0", "2", "-", "3", "0">>),
     StrArg(<<"0", "3", "/", "0", "1", "/", "2", "0", "2", "4">>)}

ActivityIdArgs == {NoneArg, StrArg(<<"4", "2">>)}

FullProfile ==
    [id |-> IntV(1), displayName |-> StrV("runner"), fullName |-> StrV("A Runner")]

SparseProfile == [displayName |-> StrV("runner")]

OpaqueProfile == [id |-> IntV(1), lastLogin |-> OpaqueV]

Profiles == {FullProfile, SparseProfile, OpaqueProfile}

FullActivity ==
    [activityId |-> IntV(42), activityName |-> StrV("Morning Run"),
     activityType |-> DictV([typeKey |-> StrV("Running")]),
     startTimeLocal |-> StrV("2024-02-28 07:00:00"), duration |-> IntV(1800),
     distance |-> IntV(5000), calories |-> IntV(300), averageHR |-> IntV(140),
     maxHR |-> IntV(170), steps |-> IntV(6000), elevationGain |-> IntV(50)]

SparseActivity == [activityId |-> IntV(7)]

ActivityLists == {<<>>, <<FullActivity>>, <<FullActivity, SparseActivity>>}

ActivityDetails == {[activityId |-> IntV(42), summaryDTO |-> DictV([duration |-> IntV(1800)])],
                    [activityId |-> IntV(42), raw |-> OpaqueV]}

(***************************************************************************)
(* The functions of the script, as far as they compute without the client. *)
(***************************************************************************)
\* get_client: the client handle, or the error dict of the exception
\* login raised
GetClient(outcome) ==
    CASE outcome = "ok" -> [handle |-> TRUE, d |-> EmptyDict]
      [] outcome = "rate_limit" -> [handle |-> FALSE, d |-> RateLimitDict]
      [] outcome \in {"connection_error", "authentication_error"} ->
            [handle |-> FALSE, d |-> ErrorDict(ExceptionMessage(outcome))]
      [] OTHER ->
            [handle |-> FALSE, d |-> ErrorDict("Unknown error: " \o ExceptionMessage(outcome))]

\* the check of the client skipped
ClientIsErrorMutant(client) == FALSE

\* isinstance(client, dict) and "error" in client
ClientIsError(client) == ~client.handle /\ "error" \in DOMAIN client.d

\* authenticate, after get_client
AuthenticateResult(client) ==
    IF ClientIsError(client)
    THEN [success |-> BoolV(FALSE), error |-> client.d["error"]]
    ELSE [success |-> BoolV(TRUE), message |-> StrV("Authentication successful")]

\* the error dict get_profile, get_activities, get_activity_details and
\* get_daily_summaries return for a failed login
ClientErrorResult(client) == [error |-> client.d["error"]]

\* test_connection, after a failed login and after get_user_profile
TestConnectionError(msg) == [success |-> BoolV(FALSE), error |-> msg]

TestConnectionResult(profile) ==
    [success |-> BoolV(TRUE),
     message |-> StrV("Successfully authenticated with Garmin"),
     profile |-> DictV([id |-> Get(profile, "id", StrV("")),
                        displayName |-> Get(profile, "displayName", StrV("")),
                        fullName |-> Get(profile, "fullName", StrV(""))])]

RECURSIVE Decimal(_)
\* str(n) of an integer n >= 0
Decimal(n) ==
    IF n < 10 THEN DigitChars[n + 1] ELSE Decimal(n \div 10) \o DigitChars[(n % 10) + 1]

\* str(v) of an integer or a string
PyStr(v) == IF v.t = "str" THEN v.s ELSE Decimal(v.n)

\* s.lower(), on the type keys of the stub activities
Lower(s) == IF s = "Running" THEN "running" ELSE s

\* one item of transformed_activities
TransformActivity(activity) ==
    [activityId |-> StrV(PyStr(Get(activity, "activityId", StrV("")))),
     activityName |-> Get(activity, "activityName", StrV("")),
     activityType |->
        StrV(Lower(Get(Get(activity, "activityType", DictV(EmptyDict)).d,
                       "typeKey", StrV("")).s)),
     startTime |-> Get(activity, "startTimeLocal", StrV("")),
     durationSeconds |-> Get(activity, "duration", IntV(0)),
     distanceMeters |-> Get(activity, "distance", IntV(0)),
     calories |-> Get(activity, "calories", IntV(0)),
     avgHeartRate |-> Get(activity, "averageHR", IntV(0)),
     maxHeartRate |-> Get(activity, "maxHR", IntV(0)),
     steps |-> Get(activity, "steps", IntV(0)),
     elevationGain |-> Get(activity, "elevationGain", IntV(0))]

TransformActivities(activities) ==
    [i \in 1..Len(activities) |-> TransformActivity(activities[i])]

\* "if end_date": None and "" are false
ArgGiven(arg) == ~arg.none /\ arg.chars # <<>>

ArgValue(arg) == IF arg.none THEN NoneV ELSE StrV(Join(arg.chars))

\* get_activities and get_daily_summaries: the two dates of the range, or
\* the exception the first strptime that fails raises
ParseRange(start_arg, end_arg) ==
    LET start == Strptime(start_arg)
        end_  == IF ArgGiven(end_arg) THEN Strptime(end_arg) ELSE start
    IN  IF ~start.ok THEN [ok |-> FALSE, msg |-> StrptimeMessage(start_arg, start.exc),
                           start |-> start, end_ |-> start]
        ELSE IF ~end_.ok THEN [ok |-> FALSE, msg |-> StrptimeMessage(end_arg, end_.exc),
                               start |-> start, end_ |-> start]
        ELSE [ok |-> TRUE, msg |-> "", start |-> start, end_ |-> end_]

\* json.dumps raises TypeError on an object it cannot encode
ScalarSerialisable(v) ==
    /\ v.t # "opaque"
    /\ v.t = "dict" => \A k \in DOMAIN v.d : v.d[k].t # "opaque"

DictSerialisable(d) == \A k \in DOMAIN d : ScalarSerialisable(d[k])

Serialisable(value) ==
    IF value.t = "obj" THEN DictSerialisable(value.o)
    ELSE \A i \in 1..Len(value.a) : DictSerialisable(value.a[i])

NotSerialisableMessage == "Object of type bytes is not JSON serializable"

\* main without its except clause
EmitOutputMutant(value) == IF Serialisable(value) THEN <<value>> ELSE <<>>

\* main, lines 407-410: the values written to standard output
EmitOutput(value) ==
    IF Serialisable(value) THEN <<value>> ELSE <<Obj(ErrorDict(NotSerialisableMessage))>>

(***************************************************************************)
(* One invocation of main.                                                 *)
(***************************************************************************)
VARIABLES
    command,      \* args.command
    date,         \* the date parameter of get_daily_summary (args.date, or
                  \* the day of the range get_daily_summaries is at)
    start_date,   \* args.start_date
    end_date,     \* args.end_date
    activity_id,  \* args.activity_id
    pc,           \* "main", "get_client", "call", "emit", "done"
    func,         \* the function that is running
    caller,       \* who called get_daily_summary: "main" or "loop"
    current_date, \* get_daily_summaries: the day of the loop
    end,          \* get_daily_summaries: the last day
    summaries,    \* get_daily_summaries: the list collected so far
    stats_data,   \* get_daily_summary: what handle_garmin_request returned
    result,       \* main: the value to print
    stdout,       \* the JSON values written to standard output
    exit_code,    \* 0, or 1 after sys.exit(1)
    calls         \* the client methods called so far, with how each ended

vars == <<command, date, start_date, end_date, activity_id, pc, func, caller,
          current_date, end, summaries, stats_data, result, stdout, exit_code, calls>>

argVars == <<command, start_date, end_date, activity_id>>

loopVars == <<current_date, end, summaries>>

Commands ==
    {"authenticate", "profile", "activities", "activity_details", "daily_summary",
     "daily_summaries", "test"}

\* the function main dispatches a command to
FuncOf(cmd) ==
    CASE cmd = "authenticate" -> "authenticate"
      [] cmd = "profile" -> "get_profile"
      [] cmd = "activities" -> "get_activities"
      [] cmd = "activity_details" -> "get_activity_details"
      [] cmd = "daily_summary" -> "get_daily_summary"
      [] cmd = "daily_summaries" -> "get_daily_summaries"
      [] cmd = "test" -> "test_connection"

NoDate == [y |-> 0, m |-> 0, d |-> 0]

DateOf(parsed) == [y |-> parsed.y, m |-> parsed.m, d |-> parsed.d]

NoResult == Obj(EmptyDict)

Init ==
    /\ command \in Commands \cup {"sync"}
    /\ date \in (IF command = "daily_summary" THEN DateArgs ELSE {NoneArg})
    /\ start_date \in (IF command \in {"activities", "daily_summaries"} THEN DateArgs ELSE {NoneArg})
    /\ end_date \in (IF command \in {"activities", "daily_summaries"} THEN DateArgs ELSE {NoneArg})
    /\ activity_id \in (IF command = "activity_details" THEN ActivityIdArgs ELSE {NoneArg})
    /\ pc = "main"
    /\ func = "main"
    /\ caller = "main"
    /\ current_date = NoDate
    /\ end = NoDate
    /\ summaries = <<>>
    /\ stats_data = NoneStats
    /\ result = NoResult
    /\ stdout = <<>>
    /\ exit_code = 0
    /\ calls = <<>>

\* a function called from main returns value
ReturnToMain(value) ==
    /\ result' = value
    /\ pc' = "emit"
    /\ func' = "main"

Called(method, kind) == calls' = Append(calls, [method |-> method, kind |-> kind])

\* main, lines 388-404: the dispatch on the command
Dispatch ==
    /\ pc = "main"
    /\ IF command \in Commands
       THEN /\ func' = FuncOf(command)
            /\ pc' = "get_client"
            /\ UNCHANGED result
       ELSE ReturnToMain(Obj(ErrorDict("Unknown command: " \o command)))
    /\ UNCHANGED <<argVars, date, caller, loopVars, stdout, exit_code, calls, stats_data>>

\* authenticate
Authenticate ==
    /\ pc = "get_client" /\ func = "authenticate"
    /\ \E outcome \in LoginOutcomes :
          /\ Called("login", outcome)
          /\ ReturnToMain(Obj(AuthenticateResult(GetClient(outcome))))
    /\ UNCHANGED <<argVars, date, caller, loopVars, stdout, exit_code, stats_data>>

\* get_profile, get_activity_details and test_connection up to the data call
LoginThenCall ==
    /\ pc = "get_client" /\ func \in {"get_profile", "get_activity_details", "test_connection"}
    /\ \E outcome \in LoginOutcomes :
          LET client == GetClient(outcome)
          IN  /\ Called("login", outcome)
              /\ IF ClientIsError(client)
                 THEN ReturnToMain(Obj(IF func = "test_connection"
                                       THEN TestConnectionError(client.d["error"])
                                       ELSE ClientErrorResult(client)))
                 ELSE pc' = "call" /\ UNCHANGED <<func, result>>
    /\ UNCHANGED <<argVars, date, caller, loopVars, stdout, exit_code, stats_data>>

\* get_profile: client.get_user_profile()
GetProfile ==
    /\ pc = "call" /\ func = "get_profile"
    /\ \/ \E profile \in Profiles :
             Called("get_user_profile", "return") /\ ReturnToMain(Obj(profile))
       \/ \E kind \in {"rate_limit", "error"} :
             /\ Called("get_user_profile", kind)
             /\ ReturnToMain(Obj(ErrorDict(ExceptionMessage(kind))))
    /\ UNCHANGED <<argVars, date, caller, loopVars, stdout, exit_code, stats_data>>

\* test_connection: client.get_user_profile()
TestConnection ==
    /\ pc = "call" /\ func = "test_connection"
    /\ \/ \E profile \in Profiles :
             /\ Called("get_user_profile", "return")
             /\ ReturnToMain(Obj(TestConnectionResult(profile)))
       \/ \E kind \in {"rate_limit", "error"} :
             /\ Called("get_user_profile", kind)
             /\ ReturnToMain(Obj(TestConnectionError(StrV(ExceptionMessage(kind)))))
    /\ UNCHANGED <<argVars, date, caller, loopVars, stdout, exit_code, stats_data>>

\* get_activity_details: client.get_activity_details(activity_id)
GetActivityDetails ==
    /\ pc = "call" /\ func = "get_activity_details"
    /\ \/ \E activity \in ActivityDetails :
             /\ Called("get_activity_details", "return")
             /\ ReturnToMain(Obj([activityId |-> ArgValue(activity_id),
                                  details |-> DictV(activity)]))
       \/ \E kind \in {"rate_limit", "error"} :
             /\ Called("get_activity_details", kind)
             /\ ReturnToMain(Obj(ErrorDict(ExceptionMessage(kind))))
    /\ UNCHANGED <<argVars, date, caller, loopVars, stdout, exit_code, stats_data>>

\* get_activities up to client.get_activities_by_date
GetActivitiesLogin ==
    /\ pc = "get_client" /\ func = "get_activities"
    /\ \E outcome \in LoginOutcomes :
          LET client == GetClient(outcome)
              range  == ParseRange(start_date, end_date)
          IN  /\ Called("login", outcome)
              /\ IF ClientIsError(client) THEN ReturnToMain(Obj(ClientErrorResult(client)))
                 ELSE IF ~range.ok THEN ReturnToMain(Obj(ErrorDict(range.msg)))
                 ELSE pc' = "call" /\ UNCHANGED <<func, result>>
    /\ UNCHANGED <<argVars, date, caller, loopVars, stdout, exit_code, stats_data>>

\* get_activities: client.get_activities_by_date and the transformation
GetActivities ==
    /\ pc = "call" /\ func = "get_activities"
    /\ \/ \E activities \in ActivityLists :
             /\ Called("get_activities_by_date", "return")
             /\ ReturnToMain(Arr(TransformActivities(activities)))
       \/ /\ Called("get_activities_by_date", "return_none")
          /\ ReturnToMain(Obj(ErrorDict("'NoneType' object is not iterable")))
       \/ \E kind \in {"rate_limit", "error"} :
             /\ Called("get_activities_by_date", kind)
             /\ ReturnToMain(Obj(ErrorDict(ExceptionMessage(kind))))
    /\ UNCHANGED <<argVars, date, caller, loopVars, stdout, exit_code, stats_data>>

\* get_daily_summary returns value: to main, or to the loop of
\* get_daily_summaries (lines 340-349), which keeps it unless it has an
\* error key, moves to the next day and calls again or returns the list
ReturnDailySummary(value) ==
    IF caller = "main"
    THEN ReturnToMain(Obj(value)) /\ UNCHANGED <<date, caller, loopVars>>
    ELSE LET kept == IF "error" \notin DOMAIN value THEN Append(summaries, value)
                     ELSE summaries
             next == NextDay(current_date)
         IN  /\ summaries' = kept
             /\ current_date' = next
             /\ UNCHANGED end
             /\ IF DateLeq(next, end)
                THEN /\ date' = StrArg(Strftime(next))
                     /\ pc' = "get_client"
                     /\ UNCHANGED <<func, caller, result>>
                ELSE /\ ReturnToMain(Arr(kept))
                     /\ caller' = "main"
                     /\ UNCHANGED date

\* get_daily_summary without its inner except clause
InvalidDateResultMutant(arg) == ErrorDict(StrptimeMessage(arg, "ValueError"))

\* get_daily_summary, lines 158-159: the result for a date strptime rejects
InvalidDateResult(arg) ==
    ErrorDict("Invalid date format: " \o Join(arg.chars) \o ". Use YYYY-MM-DD.")

\* get_daily_summary up to client.get_stats
GetDailySummaryLogin ==
    /\ pc = "get_client" /\ func = "get_daily_summary"
    /\ \E outcome \in LoginOutcomes :
          LET client == GetClient(outcome)
              parsed == Strptime(date)
          IN  /\ Called("login", outcome)
              /\ IF ClientIsError(client) THEN ReturnDailySummary(client.d)
                 ELSE IF ~parsed.ok /\ parsed.exc = "ValueError"
                 THEN ReturnDailySummary(InvalidDateResult(date))
                 ELSE IF ~parsed.ok
                 THEN ReturnDailySummary(ErrorDict(StrptimeMessage(date, parsed.exc)))
                 ELSE pc' = "call" /\ UNCHANGED <<func, result, date, caller, loopVars>>
    /\ UNCHANGED <<argVars, stdout, exit_code, stats_data>>

\* get_daily_summary from client.get_stats, which ends as outcome says, to
\* its return
StatsCall(outcome) ==
    /\ Called("get_stats", outcome.kind)
    /\ stats_data' = HandleGarminRequest(outcome)
    /\ ReturnDailySummary(SummaryFromStats(HandleGarminRequest(outcome), date))

GetDailySummaryStats ==
    /\ pc = "call" /\ func = "get_daily_summary"
    /\ \/ \E kind \in {"rate_limit", "error"} : StatsCall(Raises(kind))
       \/ /\ caller = "main"
          /\ \E r \in OtherStatsResponses : StatsCall(Returns(r))
       \/ /\ caller = "main"
          /\ \E group \in FieldGroups : \E S \in StubKeySets(group) :
                \E choice \in [S -> {1, 2}] : \E shape \in StubShapes :
                   StatsCall(Returns([shape |-> shape, d |-> StubDict(S, choice)]))
       \/ /\ caller = "loop"
          /\ \E r \in LoopStatsResponses : StatsCall(Returns(r))
    /\ UNCHANGED <<argVars, stdout, exit_code>>

\* get_daily_summaries up to the first day of the loop
GetDailySummaries ==
    /\ pc = "get_client" /\ func = "get_daily_summaries"
    /\ \E outcome \in LoginOutcomes :
          LET client == GetClient(outcome)
              range  == ParseRange(start_date, end_date)
          IN  /\ Called("login", outcome)
              /\ IF ClientIsError(client)
                 THEN ReturnToMain(Obj(ClientErrorResult(client)))
                      /\ UNCHANGED <<date, caller, loopVars>>
                 ELSE IF ~range.ok
                 THEN ReturnToMain(Obj(ErrorDict(range.msg)))
                      /\ UNCHANGED <<date, caller, loopVars>>
                 ELSE IF ~DateLeq(DateOf(range.start), DateOf(range.end_))
                 THEN ReturnToMain(Arr(<<>>)) /\ UNCHANGED <<date, caller, loopVars>>
                 ELSE /\ current_date' = DateOf(range.start)
                      /\ end' = DateOf(range.end_)
                      /\ summaries' = <<>>
                      /\ date' = StrArg(Strftime(DateOf(range.start)))
                      /\ func' = "get_daily_summary"
                      /\ caller' = "loop"
                      /\ pc' = "get_client"
                      /\ UNCHANGED result
    /\ UNCHANGED <<argVars, stdout, exit_code, stats_data>>

\* main, lines 406-411: print the result, or the error of json.dumps and exit 1
Emit ==
    /\ pc = "emit"
    /\ stdout' = stdout \o EmitOutput(result)
    /\ exit_code' = IF Serialisable(result) THEN 0 ELSE 1
    /\ pc' = "done"
    /\ UNCHANGED <<argVars, date, func, caller, loopVars, result, calls, stats_data>>

Next ==
    \/ Dispatch
    \/ Authenticate
    \/ LoginThenCall
    \/ GetProfile
    \/ TestConnection
    \/ GetActivityDetails
    \/ GetActivitiesLogin
    \/ GetActivities
    \/ GetDailySummaryLogin
    \/ GetDailySummaryStats
    \/ GetDailySummaries
    \/ Emit

Spec == Init /\ [][Next]_vars

(***************************************************************************)
(* Properties.                                                             *)
(***************************************************************************)
\* main has the value of the command's function in result
Returned == pc \in {"emit", "done"}

\* the calls of a method so far
CallsOf(method) == {i \in 1..Len(calls) : calls[i].method = method}

\* a call that raised an exception
RaisedAt(i) == calls[i].kind \notin {"ok", "return", "return_none"}

LoginRaisedRateLimit == \E i \in CallsOf("login") : calls[i].kind = "rate_limit"

LoginSucceeded == \E i \in CallsOf("login") : calls[i].kind = "ok"

StatsReturned == \E i \in CallsOf("get_stats") : calls[i].kind = "return"

\* a dict that is a summary record: no upstream key is called user_id
IsSummaryRecord(d) == "user_id" \in DOMAIN d

\* get_daily_summary, called by main, has returned a summary record
RecordProduced ==
    command = "daily_summary" /\ Returned /\ result.t = "obj" /\ IsSummaryRecord(result.o)

\* C1: for daily_summary, when login or get_stats raised the rate-limit
\* exception, get_daily_summary returns exactly {error: RATE_LIMIT_ERROR,
\* status_code: 429}, which is no summary record
C1_RateLimitDailySummary ==
    (/\ command = "daily_summary"
     /\ Returned
     /\ \E i \in 1..Len(calls) : calls[i].kind = "rate_limit")
    => /\ result.t = "obj"
       /\ DOMAIN result.o = {"error", "status_code"}
       /\ result.o["error"] = StrV("Garmin API rate limit reached. Please try again later.")
       /\ result.o["status_code"] = IntV(429)
       /\ ~IsSummaryRecord(result.o)

C1_Witness ==
    /\ command = "daily_summary"
    /\ pc = "done"
    /\ \E i \in CallsOf("get_stats") : calls[i].kind = "rate_limit"
    /\ stdout = <<Obj(RateLimitDict)>>

\* C2: for authenticate and profile, when login raised the rate-limit
\* exception, the result carries the fixed message in its error field and
\* the status code 429
C2_RateLimitCarriesStatus ==
    (/\ command \in {"authenticate", "profile"}
     /\ Returned
     /\ LoginRaisedRateLimit)
    => /\ result.t = "obj"
       /\ "error" \in DOMAIN result.o
       /\ result.o["error"] = StrV(RATE_LIMIT_ERROR)
       /\ "status_code" \in DOMAIN result.o
       /\ result.o["status_code"] = IntV(429)

\* C3: for every command, when login or a data call raised during the
\* invocation, the value on standard output is a JSON object with an error
\* field
C3_FailureEmitsError ==
    (/\ pc = "done"
     /\ \E i \in 1..Len(calls) : RaisedAt(i))
    => /\ Len(stdout) = 1
       /\ stdout[1].t = "obj"
       /\ "error" \in DOMAIN stdout[1].o

\* C4 as stated: every invocation writes exactly one JSON value, and that
\* value is a JSON object
C4_OneJsonObject ==
    pc = "done" => Len(stdout) = 1 /\ stdout[1].t = "obj"

\* C4, amended: nothing is written before main prints, then exactly one
\* JSON value is; it is a JSON object, except that activities and
\* daily_summaries write a JSON array (their list of records) when they succeed
C4_OneJsonValue ==
    /\ pc # "done" => stdout = <<>>
    /\ pc = "done" =>
          /\ Len(stdout) = 1
          /\ \/ stdout[1].t = "obj"
             \/ /\ stdout[1].t = "arr"
                /\ command \in {"activities", "daily_summaries"}
                /\ exit_code = 0
                /\ \A i \in 1..Len(stdout[1].a) : "error" \notin DOMAIN stdout[1].a[i]

C4_Witness ==
    /\ pc = "done"
    /\ command = "activities"
    /\ Len(stdout) = 1
    /\ stdout[1].t = "arr"
    /\ Len(stdout[1].a) = 2

\* C5: when a summary record is produced and the response has neither the
\* averageStressLevel nor the avg_stress_level key, the record's
\* avg_stress_level is -1
C5_UnknownStressIsMinusOne ==
    (/\ RecordProduced
     /\ "averageStressLevel" \notin DOMAIN stats_data.d
     /\ "avg_stress_level" \notin DOMAIN stats_data.d)
    => result.o["avg_stress_level"] = IntV(-1)

\* the fields of C6: record field, primary key, fallback key
FallbackFields ==
    {<<"total_steps", "totalSteps", "total_steps">>,
     <<"total_distance_meters", "totalDistanceMeters", "total_distance_meters">>,
     <<"total_calories", "totalKilocalories", "total_calories">>,
     <<"active_calories", "activeKilocalories", "active_calories">>,
     <<"bmr_calories", "bmrKilocalories", "bmr_calories">>,
     <<"floor_climbed", "floorsAscended", "floor_climbed">>,
     <<"max_heart_rate", "maxHeartRate", "max_heart_rate">>,
     <<"resting_heart_rate", "restingHeartRate", "resting_heart_rate">>}

\* C6: in a summary record made from a dict response, each of the eight
\* fields is the value under the camelCase key if that key is present,
\* otherwise the value under the snake_case key if present, otherwise 0
C6_PrimaryThenFallback ==
    (RecordProduced /\ stats_data.shape = "dict")
    => \A f \in FallbackFields :
          result.o[f[1]] =
             IF f[2] \in DOMAIN stats_data.d THEN stats_data.d[f[2]]
             ELSE IF f[3] \in DOMAIN stats_data.d THEN stats_data.d[f[3]]
             ELSE IntV(0)

C6_Witness ==
    /\ RecordProduced
    /\ pc = "done"
    /\ stats_data.shape = "dict"
    /\ {"maxHeartRate", "max_heart_rate"} \subseteq DOMAIN stats_data.d
    /\ stats_data.d["maxHeartRate"] = IntV(0)
    /\ stats_data.d["max_heart_rate"] = IntV(7)
    /\ result.o["max_heart_rate"] = IntV(0)

\* C7: in a daily_summary invocation login is called once, get_stats at
\* most once and only after login returned, never after login failed, and
\* no method is called again after it raised
C7_LinearPipeline ==
    command = "daily_summary" =>
       /\ Cardinality(CallsOf("login")) <= 1
       /\ pc \in {"call", "emit", "done"} => Cardinality(CallsOf("login")) = 1
       /\ Cardinality(CallsOf("get_stats")) <= 1
       /\ \A i \in CallsOf("get_stats") :
             \E j \in CallsOf("login") : j < i /\ calls[j].kind = "ok"
       /\ (\E j \in CallsOf("login") : RaisedAt(j)) => CallsOf("get_stats") = {}
       /\ \A i \in 1..Len(calls) : \A j \in 1..Len(calls) :
             (i < j /\ RaisedAt(i)) => calls[j].method # calls[i].method

C7_Witness ==
    /\ command = "daily_summary"
    /\ pc = "done"
    /\ Len(calls) = 2
    /\ calls[1] = [method |-> "login", kind |-> "ok"]
    /\ calls[2] = [method |-> "get_stats", kind |-> "error"]

\* the value of key in the response, 0 when the key is absent
SecondsOf(key) == IF key \in DOMAIN stats_data.d THEN stats_data.d[key].n ELSE 0

\* the direct minute value of a bucket, under either of its keys
DirectMinutes(snake, camel) ==
    IF snake \in DOMAIN stats_data.d THEN stats_data.d[snake].n
    ELSE IF camel \in DOMAIN stats_data.d THEN stats_data.d[camel].n
    ELSE 0

\* get_daily_summary fell back to the seconds
FellBackToSeconds ==
    /\ RecordProduced
    /\ DirectMinutes("minutes_lightly_active", "minutesLightlyActive") = 0
    /\ DirectMinutes("minutes_moderately_active", "minutesModeratelyActive") = 0
    /\ DirectMinutes("minutes_highly_active", "minutesHighlyActive") = 0
    /\ SecondsOf("activeSeconds") \div 60 > 0

\* C8: after the fall back to seconds, highly = highlyActiveSeconds div 60,
\* moderately = floor(0.4 * (activeSeconds div 60)), lightly = the rest, and
\* the three buckets sum to activeSeconds div 60
C8_EstimatedBuckets ==
    FellBackToSeconds =>
       LET active     == SecondsOf("activeSeconds") \div 60
           highly     == SecondsOf("highlyActiveSeconds") \div 60
           moderately == (4 * active) \div 10
       IN  /\ result.o["minutes_highly_active"] = IntV(highly)
           /\ result.o["minutes_moderately_active"] = IntV(moderately)
           /\ result.o["minutes_lightly_active"] = IntV(active - highly - moderately)
           /\ result.o["minutes_highly_active"].n + result.o["minutes_moderately_active"].n
                 + result.o["minutes_lightly_active"].n = active

C8_Witness ==
    /\ FellBackToSeconds
    /\ pc = "done"
    /\ SecondsOf("activeSeconds") = 180
    /\ SecondsOf("highlyActiveSeconds") = 60
    /\ result.o["minutes_highly_active"] = IntV(1)
    /\ result.o["minutes_moderately_active"] = IntV(1)
    /\ result.o["minutes_lightly_active"] = IntV(1)

\* the error get_daily_summary returns for a date it rejects
InvalidDateError ==
    Obj([error |-> StrV("Invalid date format: " \o Join(date.chars) \o ". Use YYYY-MM-DD.")])

\* C9 as stated, for a date that is given: when the date is a string not in
\* YYYY-MM-DD form and login succeeded, the result is the invalid-date error
\* and get_stats is never called
C9_NotIsoFormRejected ==
    (/\ command = "daily_summary"
     /\ Returned
     /\ LoginSucceeded
     /\ ~date.none
     /\ ~IsIsoForm(date))
    => result = InvalidDateError /\ CallsOf("get_stats") = {}

\* C9, amended: when the date is a string that strptime rejects for
\* %Y-%m-%d (it does not match the format, or names no calendar day) and
\* login succeeded, the result is the invalid-date error and get_stats is
\* never called
C9_RejectedDate ==
    (/\ command = "daily_summary"
     /\ Returned
     /\ LoginSucceeded
     /\ ~date.none
     /\ ~Strptime(date).ok)
    => result = InvalidDateError /\ CallsOf("get_stats") = {}

C9_Witness ==
    /\ command = "daily_summary"
    /\ pc = "done"
    /\ LoginSucceeded
    /\ date = StrArg(<<"2", "0", "2", "4", "-", "0", "2", "-", "3", "0">>)
    /\ stdout = <<InvalidDateError>>
    /\ CallsOf("get_stats") = {}

\* the total a response resolves to: the value under either key of a dict
\* or of the first item of a list, 0 when nothing was extracted
ResolvedTotal(primary, fallback) ==
    IF primary \in DOMAIN stats_data.d THEN stats_data.d[primary].n
    ELSE IF fallback \in DOMAIN stats_data.d THEN stats_data.d[fallback].n
    ELSE 0

AllTotalsZero ==
    /\ ResolvedTotal("totalSteps", "total_steps") = 0
    /\ ResolvedTotal("totalDistanceMeters", "total_distance_meters") = 0
    /\ ResolvedTotal("totalKilocalories", "total_calories") = 0

\* get_stats returned and the response was not taken for a rate-limit
\* error, so that the totals are resolved
TotalsResolved ==
    /\ command = "daily_summary"
    /\ Returned
    /\ StatsReturned
    /\ ~(stats_data.shape = "dict" /\ "status_code" \in DOMAIN stats_data.d
         /\ stats_data.d["status_code"] = IntV(429))

\* C10: a summary record is returned only when one of the three totals is
\* not 0; when the response is empty or None, or all three resolve to 0,
\* the result is the error "No fitness data available for <date>"
C10_NoDataWithoutTotals ==
    TotalsResolved =>
       /\ IsSummaryRecord(result.o) => ~AllTotalsZero
       /\ (~Truthy(stats_data) \/ AllTotalsZero) =>
             result = Obj([error |-> StrV("No fitness data available for " \o Join(date.chars))])

\* C11: in every summary record made from a response whose values are
\* non-negative integers, minutes_sedentary, minutes_lightly_active,
\* minutes_moderately_active and minutes_highly_active are not negative
C11_BucketsNonNegative ==
    (/\ RecordProduced
     /\ \A k \in DOMAIN stats_data.d : stats_data.d[k].t = "int" /\ stats_data.d[k].n >= 0)
    => \A f \in {"minutes_sedentary", "minutes_lightly_active",
                 "minutes_moderately_active", "minutes_highly_active"} :
          result.o[f].n >= 0

\* the response of the other shape: [d] for the dict d, d for the list [d]
OtherShape(stats) ==
    IF stats.shape = "dict" THEN ListStats(stats.d) ELSE DictStats(stats.d)

\* get_stats returned a dict, or a list whose first item is a dict
DictOrListOfDict ==
    /\ command = "daily_summary"
    /\ Returned
    /\ StatsReturned
    /\ stats_data.shape \in {"dict", "list_of_dict"}

\* C12 as stated: for every dict d the result for the response [d] equals
\* the result for the response d, for records and for errors alike
C12_ShapeIndependent ==
    DictOrListOfDict => result = Obj(SummaryFromStats(OtherShape(stats_data), date))

\* C12, amended: for every dict d whose status_code is not 429 the result
\* for the response [d] equals the result for the response d, for records
\* and for errors alike
C12_ShapeIndependentUnlessStatus429 ==
    (/\ DictOrListOfDict
     /\ ~("status_code" \in DOMAIN stats_data.d /\ stats_data.d["status_code"] = IntV(429)))
    => result = Obj(SummaryFromStats(OtherShape(stats_data), date))

C12_Witness ==
    /\ DictOrListOfDict
    /\ pc = "done"
    /\ stats_data.shape = "list_of_dict"
    /\ "activeSeconds" \in DOMAIN stats_data.d
    /\ "highlyActiveSeconds" \in DOMAIN stats_data.d
    /\ IsSummaryRecord(result.o)
    /\ result.o["minutes_highly_active"] = IntV(1)
    /\ result = Obj(SummaryFromStats(DictStats(stats_data.d), date))

====
